---- MODULE Spec2Model ----
(***************************************************************************)
(* automate_building_dockerfiles.py: the driver that, for every artifact   *)
(* (Bibcode directory) and every Ubuntu version, writes a Dockerfile       *)
(* variant, builds it, asks an LLM to repair it on failure (bounded        *)
(* retries), runs the container, parses the test counts and appends one    *)
(* row to results.csv.                                                     *)
(*                                                                         *)
(* Text is a sequence of tokens.  A token is one character, except for the *)
(* literals the program's regular expressions and delimiters match as a    *)
(* whole ("FROM", "ubuntu:", "Tests Passed:", "Tests Failed:",             *)
(* "Fixed Dockerfile:", "Note:", "Note that"), which are one token each.   *)
(***************************************************************************)
EXTENDS Integers, Sequences, FiniteSets, TLC

\* Python's None, as a value no text equals
None == << "<None>" >>

(***************************************************************************)
(* Bounds of the model.                                                    *)
(***************************************************************************)
\* most directories os.listdir returns
MaxArtifacts == 2
\* most (artifact, version) pairs of one run in which the environment
\* (docker, the LLM service, the file system) leaves the nominal path
MaxFaults == 1
\* most tokens of a run output given to parse_test_results on its own
MaxLogLen == 4
\* most tokens of a generated text given to fix_dockerfile_with_llm on its own
MaxFixLen == 4
\* most characters of an artifact id given to sanitize_image_tag on its own
MaxIdLen == 3
\* most lines of a results.csv that log_results is called on, on its own
MaxCsvLen == 4

(***************************************************************************)
(* Program constants.                                                      *)
(***************************************************************************)
max_retries == 3
\* build_logs[-200:]
LogTail == 200
\* error_message[:-5]
ErrCut == 5

UBUNTU_VERSIONS ==
  << <<"1","4",".","0","4">>, <<"1","6",".","0","4">>, <<"1","8",".","0","4">>,
     <<"2","0",".","0","4">>, <<"2","2",".","0","4">>, <<"2","4",".","0","4">> >>

(***************************************************************************)
(* Python string and list primitives.  Where an operator reads its         *)
(* argument many times, the argument is bound once as the only element of  *)
(* a function's domain, so that it is evaluated once.                      *)
(***************************************************************************)
Whitespace == {" ", "\n"}
Digits == <<"0","1","2","3","4","5","6","7","8","9">>
IsDigit(c) == \E i \in 1..10 : Digits[i] = c
DigitVal(c) == (CHOOSE i \in 1..10 : Digits[i] = c) - 1

\* s[-n:]
LastN(s, n) == IF Len(s) <= n THEN s ELSE SubSeq(s, Len(s) - n + 1, Len(s))
\* s[:-n]
DropLastN(s, n) == IF Len(s) <= n THEN <<>> ELSE SubSeq(s, 1, Len(s) - n)
\* s[i:]
From(s, i) == IF i > Len(s) THEN <<>> ELSE SubSeq(s, i, Len(s))

RECURSIVE JoinAt(_, _, _)
\* ''.join(lines[off:off + n]), half by half
JoinAt(lines, off, n) ==
  IF n = 0 THEN <<>>
  ELSE IF n = 1 THEN lines[off + 1]
  ELSE JoinAt(lines, off, n \div 2) \o JoinAt(lines, off + n \div 2, (n + 1) \div 2)
\* ''.join(lines)
Join(lines) ==
  LET whole == [t \in {lines} |-> JoinAt(t, 0, Len(t))]
  IN whole[lines]

RECURSIVE LStrip(_)
LStrip(s) == IF s # <<>> /\ Head(s) \in Whitespace THEN LStrip(Tail(s)) ELSE s
RECURSIVE RStrip(_)
RStrip(s) ==
  IF s # <<>> /\ s[Len(s)] \in Whitespace THEN RStrip(SubSeq(s, 1, Len(s) - 1)) ELSE s
\* s.strip()
Strip(s) ==
  LET both == [t \in {s} |-> RStrip(LStrip(t))]
  IN both[s]

\* s.replace(c, "")
RECURSIVE RemoveAll(_, _)
RemoveAll(s, c) ==
  IF s = <<>> THEN <<>>
  ELSE IF Head(s) = c THEN RemoveAll(Tail(s), c)
  ELSE <<Head(s)>> \o RemoveAll(Tail(s), c)

\* index of the first occurrence of token d in s, 0 when absent
IndexOf(s, d) ==
  LET first == [t \in {s} |->
                  IF \E i \in 1..Len(t) : t[i] = d
                  THEN CHOOSE i \in 1..Len(t) : t[i] = d /\ \A j \in 1..(i - 1) : t[j] # d
                  ELSE 0]
  IN first[s]

\* the number of tokens of s from position i on that satisfy the run
RECURSIVE SpaceRun(_, _)
SpaceRun(s, i) ==
  IF i <= Len(s) /\ s[i] \in Whitespace THEN 1 + SpaceRun(s, i + 1) ELSE 0
RECURSIVE DigitRun(_, _)
DigitRun(s, i) == IF i <= Len(s) /\ IsDigit(s[i]) THEN 1 + DigitRun(s, i + 1) ELSE 0
RECURSIVE NonSpaceRun(_, _)
NonSpaceRun(s, i) ==
  IF i <= Len(s) /\ s[i] \notin Whitespace THEN 1 + NonSpaceRun(s, i + 1) ELSE 0

RECURSIVE ToInt(_)
\* int(digits)
ToInt(ds) ==
  IF ds = <<>> THEN 0 ELSE 10 * ToInt(SubSeq(ds, 1, Len(ds) - 1)) + DigitVal(ds[Len(ds)])

RECURSIVE Gcd(_, _)
Gcd(a, b) == IF b = 0 THEN a ELSE Gcd(b, a % b)
\* the exact value of a Python float quotient, in lowest terms
Frac(n, d) == LET g == Gcd(n, d) IN [num |-> n \div g, den |-> d \div g]
Zero == [num |-> 0, den |-> 1]

(***************************************************************************)
(* The pure functions of automate_building_dockerfiles.py.                 *)
(***************************************************************************)
\* load_bibcode_directories falling back to every directory when the
\* requested one is not there
load_bibcode_directories_fallback(dirs, specific) ==
  IF specific # None /\ \E i \in 1..Len(dirs) : dirs[i] = specific
  THEN <<specific>>
  ELSE dirs

\* load_bibcode_directories: all_dirs is what os.listdir gives, filtered to
\* directories; specific_bibcode is None or the requested id
load_bibcode_directories(dirs, specific) ==
  IF specific # None
  THEN IF \E i \in 1..Len(dirs) : dirs[i] = specific THEN <<specific>> ELSE <<>>
  ELSE dirs

\* length of the match of FROM\s+ubuntu:\S+ starting at position i, 0 when
\* there is none
FromMatchLen(s, i) ==
  IF i > Len(s) \/ s[i] # "FROM" THEN 0
  ELSE LET sp == SpaceRun(s, i + 1)
           u  == i + 1 + sp
       IN IF sp = 0 \/ u > Len(s) \/ s[u] # "ubuntu:" THEN 0
          ELSE LET w == NonSpaceRun(s, u + 1)
               IN IF w = 0 THEN 0 ELSE 2 + sp + w

\* extract_base_version: group 1 of the first match, or None
extract_base_version(s) ==
  IF \E i \in 1..Len(s) : FromMatchLen(s, i) > 0
  THEN LET i == CHOOSE k \in 1..Len(s) :
                  /\ FromMatchLen(s, k) > 0
                  /\ \A j \in 1..(k - 1) : FromMatchLen(s, j) = 0
           w == NonSpaceRun(s, i + 2 + SpaceRun(s, i + 1))
       IN SubSeq(s, i + FromMatchLen(s, i) - w, i + FromMatchLen(s, i) - 1)
  ELSE None

RECURSIVE SubFrom(_, _, _)
SubFrom(s, i, version) ==
  IF i > Len(s) THEN <<>>
  ELSE IF FromMatchLen(s, i) > 0
       THEN <<"FROM", " ", "ubuntu:">> \o version
              \o SubFrom(s, i + FromMatchLen(s, i), version)
       ELSE <<s[i]>> \o SubFrom(s, i + 1, version)

\* update_dockerfile_content: re.sub of every match by FROM ubuntu:<version>
update_dockerfile_content(s, version) == SubFrom(s, 1, version)

Upper == <<"A","B","C","D","E","F","G","H","I","J","K","L","M",
           "N","O","P","Q","R","S","T","U","V","W","X","Y","Z">>
Lower == <<"a","b","c","d","e","f","g","h","i","j","k","l","m",
           "n","o","p","q","r","s","t","u","v","w","x","y","z">>
IsUpper(c) == \E i \in 1..26 : Upper[i] = c
IsLower(c) == \E i \in 1..26 : Lower[i] = c
ToLower(c) == IF IsUpper(c) THEN Lower[CHOOSE i \in 1..26 : Upper[i] = c] ELSE c
\* the class [a-zA-Z0-9]
TagCharAlnum(c) == IsUpper(c) \/ IsLower(c) \/ IsDigit(c)
\* the class [a-zA-Z0-9_.-]
TagChar(c) == IsUpper(c) \/ IsLower(c) \/ IsDigit(c) \/ c \in {"_", ".", "-"}

\* sanitize_image_tag
sanitize_image_tag(tag) ==
  [i \in 1..Len(tag) |-> ToLower(IF TagChar(tag[i]) THEN tag[i] ELSE "_")]

\* the image tag main derives for a pair
ImageTag(bibcode, version) ==
  sanitize_image_tag(bibcode) \o <<":">> \o RemoveAll(version, ".")

\* build_image: what it returns for each outcome of client.images.build
build_image(outcome) ==
  CASE outcome.kind = "built" ->
         [success |-> TRUE, error_message |-> None, build_logs |-> outcome.logs]
    [] outcome.kind = "BuildError" ->
         [success |-> FALSE, error_message |-> Join(outcome.logs),
          build_logs |-> outcome.logs]
    [] OTHER ->
         [success |-> FALSE, error_message |-> outcome.msg, build_logs |-> <<>>]

\* run_container: what it returns for each outcome of the docker calls, and
\* what has become of the container when it returns.  containers.run raising
\* leaves container = None; wait() or logs() raising comes after the
\* container is there; the finally clause removes it, and only logs a
\* removal that fails.
NoStatus == -1
\* run_container returning False when the container's exit status is not 0
run_container_checks_status(outcome) ==
  LET created == outcome.kind # "raise"
      container == IF ~created THEN "none"
                   ELSE IF outcome.remove THEN "removed" ELSE "left"
      exit_status == IF outcome.kind \in {"raise", "wait_raises"} THEN NoStatus
                     ELSE outcome.status
  IN IF outcome.kind = "ran" /\ outcome.status = 0
     THEN [run_success |-> TRUE, output |-> outcome.logs, container |-> container,
           exit_status |-> exit_status]
     ELSE [run_success |-> FALSE, output |-> outcome.msg, container |-> container,
           exit_status |-> exit_status]
\* exit_status is what container.wait() returned (line 184), NoStatus when
\* the call was not reached or raised; nothing reads it.
run_container(outcome) ==
  LET created == outcome.kind # "raise"
      container == IF ~created THEN "none"
                   ELSE IF outcome.remove THEN "removed" ELSE "left"
      exit_status == IF outcome.kind \in {"raise", "wait_raises"} THEN NoStatus
                     ELSE outcome.status
  IN IF outcome.kind = "ran"
     THEN [run_success |-> TRUE, output |-> outcome.logs, container |-> container,
           exit_status |-> exit_status]
     ELSE [run_success |-> FALSE, output |-> outcome.msg, container |-> container,
           exit_status |-> exit_status]

\* re.search(marker \s* (\d+)): the digits of the first match, or None
SearchCount(logs, marker) ==
  LET hit(i) == logs[i] = marker /\ DigitRun(logs, i + 1 + SpaceRun(logs, i + 1)) > 0
  IN IF \E i \in 1..Len(logs) : hit(i)
     THEN LET i == CHOOSE k \in 1..Len(logs) : hit(k) /\ \A j \in 1..(k - 1) : ~hit(j)
              d == i + 1 + SpaceRun(logs, i + 1)
          IN SubSeq(logs, d, d + DigitRun(logs, d) - 1)
     ELSE None

\* parse_test_results with the quotient taken as an integer division
parse_test_results_floordiv(logs) ==
  LET passed == SearchCount(logs, "Tests Passed:")
      failed == SearchCount(logs, "Tests Failed:")
      passed_cases == IF passed # None THEN ToInt(passed) ELSE 1
      failed_cases == IF failed # None THEN ToInt(failed) ELSE 0
      total_cases  == passed_cases + failed_cases
  IN [passed_cases |-> passed_cases, failed_cases |-> failed_cases,
      pass_percentage |->
        IF total_cases > 0 THEN Frac((passed_cases \div total_cases) * 100, 1)
        ELSE Zero]

\* parse_test_results with a missing 'Tests Passed' marker counted as 0
parse_test_results_nopass(logs) ==
  LET passed == SearchCount(logs, "Tests Passed:")
      failed == SearchCount(logs, "Tests Failed:")
      passed_cases == IF passed # None THEN ToInt(passed) ELSE 0
      failed_cases == IF failed # None THEN ToInt(failed) ELSE 0
      total_cases  == passed_cases + failed_cases
  IN [passed_cases |-> passed_cases, failed_cases |-> failed_cases,
      pass_percentage |->
        IF total_cases > 0 THEN Frac(passed_cases * 100, total_cases) ELSE Zero]

\* parse_test_results
parse_test_results(logs) ==
  LET passed == SearchCount(logs, "Tests Passed:")
      failed == SearchCount(logs, "Tests Failed:")
      passed_cases == IF passed # None THEN ToInt(passed) ELSE 1
      failed_cases == IF failed # None THEN ToInt(failed) ELSE 0
      total_cases  == passed_cases + failed_cases
  IN [passed_cases |-> passed_cases, failed_cases |-> failed_cases,
      pass_percentage |->
        IF total_cases > 0 THEN Frac(passed_cases * 100, total_cases) ELSE Zero]

\* the try block cutting at 'Note:' only
fix_try_one_marker(response) ==
  CASE response.kind \in {"post_raises", "bad_json"} ->
         [raises |-> TRUE, value |-> None]
    [] response.kind \in {"http_error", "error_field"} ->
         [raises |-> FALSE, value |-> None]
    [] OTHER ->
         LET generated_text == Strip(response.text)
             d1 == IndexOf(generated_text, "Fixed Dockerfile:")
             f1 == IF d1 > 0 THEN Strip(From(generated_text, d1 + 1)) ELSE generated_text
             d2 == IndexOf(f1, "Note:")
             f2 == IF d2 > 0 THEN Strip(SubSeq(f1, 1, d2 - 1)) ELSE f1
         IN [raises |-> FALSE, value |-> IF generated_text = <<>> THEN None ELSE f2]

\* fix_dockerfile_with_llm, lines 259-302: the body of its try block, for
\* each outcome of requests.post.  raises: an exception left the block
\* (requests.post failed; response.json() failed or its value is not a list
\* of objects); value: what the block returned otherwise.
fix_try(response) ==
  CASE response.kind \in {"post_raises", "bad_json"} ->
         [raises |-> TRUE, value |-> None]
    [] response.kind \in {"http_error", "error_field"} ->
         [raises |-> FALSE, value |-> None]
    [] OTHER ->
         LET generated_text == Strip(response.text)
             d1 == IndexOf(generated_text, "Fixed Dockerfile:")
             f1 == IF d1 > 0 THEN Strip(From(generated_text, d1 + 1)) ELSE generated_text
             d2 == IndexOf(f1, "Note:")
             f2 == IF d2 > 0 THEN Strip(SubSeq(f1, 1, d2 - 1)) ELSE f1
             d3 == IndexOf(f2, "Note that")
             f3 == IF d3 > 0 THEN Strip(SubSeq(f2, 1, d3 - 1)) ELSE f2
         IN [raises |-> FALSE, value |-> IF generated_text = <<>> THEN None ELSE f3]

\* fix_dockerfile_with_llm without its 'except Exception' clause
fix_dockerfile_with_llm_noexcept(response) ==
  LET t == fix_try(response)
  IN [raised |-> t.raises, value |-> t.value]

\* fix_dockerfile_with_llm: 'except Exception' (lines 304-306) turns every
\* exception of the block into None.  raised: an exception reaches the caller.
fix_dockerfile_with_llm(response) ==
  LET t == fix_try(response)
  IN [raised |-> FALSE, value |-> IF t.raises THEN None ELSE t.value]

\* the header row csv.DictWriter.writeheader writes
Header == [kind |-> "header"]

\* log_results writing the header at every call
log_results_always_header(data, file) ==
  [exists |-> TRUE, lines |-> file.lines \o <<Header, data>>]

\* log_results: the file after the call; the header goes in when the file
\* did not exist
log_results(data, file) ==
  [exists |-> TRUE,
   lines  |-> (IF file.exists THEN file.lines ELSE <<Header>>) \o <<data>>]

(***************************************************************************)
(* analytics_v3.py: the reader of the results table.                       *)
(***************************************************************************)
\* categorize_row: the class of one row.  pandas reads an empty
\* 'Modifications to Dockerfile' cell as NaN.
categorize_row(row) ==
  IF row.pct = Zero THEN "Non-Reproducible"
  ELSE IF row.note = <<>> \/ Strip(row.note) = <<>> THEN "Automatic Reproducible"
  ELSE "Reproducible with Effort"

\* categorize_reproducibility: the 'Reproducibility' column, row by row
categorize_reproducibility(df) == [i \in 1..Len(df) |-> categorize_row(df[i])]

(***************************************************************************)
(* The environment: what the file system, docker and the LLM service can   *)
(* answer.                                                                 *)
(***************************************************************************)
\* the directories base_directory can hold, in os.listdir's order
Listing == << <<"m">>, <<"A","b">>, <<"a",".","b">>, <<"a","b">> >>
ArtifactIds == {Listing[i] : i \in 1..Len(Listing)}

\* the directory listings: at most MaxArtifacts of them, in that order
Catalogs ==
  { d \in UNION { [1..n -> ArtifactIds] : n \in 0..MaxArtifacts } :
      \A i, j \in 1..Len(d) :
        i < j => \E a, b \in 1..Len(Listing) : a < b /\ Listing[a] = d[i] /\ Listing[b] = d[j] }

\* args.bibcode: absent, a listed directory, or a name that is none
SpecificChoices == {None, <<"A","b">>, <<"a",".","b">>, <<"z">>}

DockerfileOk ==
  <<"FROM"," ","ubuntu:","1","8",".","0","4","\n","R","U","N"," ","t">>
DockerfileNoBase == <<"FROM"," ","d","e","b","\n">>
\* what <artifact>/Dockerfile can be when main looks for it and reads it
DockerfileStates(id) ==
  CASE id = <<"m">> -> { [state |-> "missing", text |-> <<>>],
                         [state |-> "unreadable", text |-> DockerfileOk] }
    [] id = <<"a",".","b">> -> { [state |-> "readable", text |-> DockerfileNoBase] }
    [] OTHER -> { [state |-> "readable", text |-> DockerfileOk] }

\* a build log of LogTail + 1 lines
LongLog == [i \in 1..(LogTail + 1) |->
              IF i = 1 THEN <<"h">> ELSE IF i = LogTail + 1 THEN <<"e">> ELSE <<"x">>]

BuildOk == [kind |-> "built", logs |-> << <<"o","k","\n">> >>, msg |-> <<>>]
BuildFails == [kind |-> "BuildError", logs |-> LongLog, msg |-> <<>>]
BuildRaises == [kind |-> "Exception", logs |-> <<>>, msg |-> <<"b","o","o","m">>]

GeneratedFix ==
  <<"Fixed Dockerfile:","\n","FROM"," ","ubuntu:","2","0",".","0","4","\n",
    "R","U","N"," ","f","\n","Note:"," ","x">>
GeneratedNoteOnly == <<" ","Note:"," ","n","o">>
\* response.status_code != 200
HttpError == [kind |-> "http_error", text |-> <<>>]
\* requests.post raises (no connection, timeout)
PostRaises == [kind |-> "post_raises", text |-> <<>>]
\* the body is not JSON, or not a list of objects
BadJson == [kind |-> "bad_json", text |-> <<>>]
\* the service answers {"error": ...}
ErrorField == [kind |-> "error_field", text |-> <<>>]
Generated(text) == [kind |-> "generated", text |-> text]

RunOk == [kind |-> "ran", logs |-> <<"d","o","n","e","\n">>, msg |-> <<>>,
          remove |-> TRUE, status |-> 0]
Ran(logs) == [kind |-> "ran", logs |-> logs, msg |-> <<>>, remove |-> TRUE,
              status |-> 0]
\* the container's command fails: it prints an error and exits with 1
RanExit1 == [kind |-> "ran", logs |-> <<"e","r","r","\n">>, msg |-> <<>>,
             remove |-> TRUE, status |-> 1]
RunRaises == [kind |-> "raise", logs |-> <<>>, remove |-> TRUE,
              msg |-> <<"n","o"," ","i","m","a","g","e">>, status |-> 0]

OldRow == [kind |-> "row", sno |-> 1, bibcode |-> <<"o","l","d">>,
           base |-> <<"1","8",".","0","4">>, version |-> <<"2","0",".","0","4">>,
           passed |-> 1, failed |-> 0, pct |-> Frac(100, 1), error |-> <<>>,
           note |-> <<>>]
\* results.csv before the run: absent, or left by an earlier run
CsvStates ==
  { [exists |-> FALSE, lines |-> <<>>],
    [exists |-> TRUE, lines |-> <<Header, OldRow>>] }

(***************************************************************************)
(* The state of main().                                                    *)
(***************************************************************************)
VARIABLES
  all_dirs,          \* the directories of base_directory (input)
  specific_bibcode,  \* args.bibcode (input)
  csv,               \* results.csv
  csv0,              \* the number of lines results.csv had when the run began
  pc,                \* where main is
  bibcode_dirs, bi,  \* the artifact loop and its position
  vi,                \* the position of the version loop
  dockerfile_content, base_version, updated_dockerfile_content,
  success, error_message, build_logs, retry_count, fixed_dockerfile_content,
  serial_no, run_success, output,
  exit_status,       \* what container.wait() returned in the pair's run
  \* what the current pair has done so far (reset when a pair begins)
  repair_calls,      \* calls of fix_dockerfile_with_llm
  builds,            \* calls of build_image
  runs,              \* calls of run_container
  tags,              \* the image tags given to docker
  built_text,        \* the text of the Dockerfile most recently built
  built_logs,        \* the log lines of the most recent build
  request,           \* the (dockerfile_content, error_logs) sent for repair and
                     \* not yet answered by a rebuild
  logfile,           \* the log file the build just made wrote, None if none
  outcome,           \* the terminal state the pair reached, "none" before
  recorded,          \* rows appended for the pair
  faults, deviated,  \* the environment's budget of non-nominal pairs
  fn_in, fn_out      \* a pure function checked on its own: its argument and,
                     \* once applied, <<its result>>

prog == <<pc, bibcode_dirs, bi, vi, dockerfile_content, base_version,
          updated_dockerfile_content, success, error_message, build_logs,
          retry_count, fixed_dockerfile_content, serial_no>>
inputs == <<all_dirs, specific_bibcode, csv0, fn_in, fn_out>>
ran == <<run_success, output, exit_status>>
pair == <<repair_calls, builds, runs, tags, built_text, built_logs, request,
          logfile, outcome, recorded>>
vars == <<inputs, csv, prog, ran, pair, faults, deviated>>

bibcode == bibcode_dirs[bi]
ubuntu_version == UBUNTU_VERSIONS[vi]
image_tag == ImageTag(bibcode, ubuntu_version)

(***************************************************************************)
(* The answers the environment may give in a run.  A run over a catalog of *)
(* one directory sees all of them; to keep the runs over longer catalogs   *)
(* few, those see one failure of each step that a later pair can feel:     *)
(* a build that fails with no repair to be had, a run that raises, a       *)
(* variant or a results.csv that cannot be written.                        *)
(***************************************************************************)
Rich == Len(all_dirs) <= 1
\* the outcomes of client.images.build
BuildOutcomes ==
  IF Rich THEN {BuildOk, BuildFails, BuildRaises} ELSE {BuildOk, BuildFails}
\* the outcomes of requests.post and of reading its response
RepairResponses ==
  IF Rich
  THEN { HttpError, PostRaises, BadJson, ErrorField, Generated(<<" ", "\n">>),
         Generated(GeneratedFix), Generated(GeneratedNoteOnly) }
  ELSE {HttpError}
\* the outcomes of client.containers.run / wait / logs
RunOutcomes ==
  IF Rich
  THEN { RunOk, RunRaises, RanExit1,
         Ran(<<"Tests Passed:"," ","3","\n">>),
         Ran(<<"Tests Passed:"," ","0","\n","Tests Failed:"," ","0">>),
         Ran(<<"x","Tests Failed:","2","\n">>) }
  ELSE {RunOk, RunRaises}
\* whether writing a build log or a repaired variant succeeds
FileWrites == IF Rich THEN BOOLEAN ELSE {TRUE}

\* f"Attempted fixes via LLM API, {retry_count} retries"
RetryNote(n) == <<"Attempted fixes via LLM API, ", Digits[n + 1], " retries">>

\* build_log_<version>.txt (k = 0) and build_log_<version>_fixed_<k>.txt
LogFileName(k) == [version |-> RemoveAll(ubuntu_version, "."), fixed |-> k]
NoLogFile == [name |-> [version |-> <<>>, fixed |-> 0], lines |-> None]
\* the whole build log written to the file
WriteLogWhole(k, lines, written) ==
  IF written THEN [name |-> LogFileName(k), lines |-> lines] ELSE NoLogFile
\* the file a build's log goes to: log_file.writelines(build_logs[-200:])
WriteLog(k, lines, written) ==
  IF written THEN [name |-> LogFileName(k), lines |-> LastN(lines, LogTail)]
  ELSE NoLogFile

NoRequest == [dockerfile |-> None, error_logs |-> None]

\* the rows this run appended to results.csv, in write order
RunRows ==
  SelectSeq(SubSeq(csv.lines, csv0 + 1, Len(csv.lines)), LAMBDA l : l.kind = "row")

\* the serial number counted from 0
InitLocalsFromZero ==
  /\ bibcode_dirs = <<>> /\ bi = 1 /\ vi = 1
  /\ dockerfile_content = None /\ base_version = None
  /\ updated_dockerfile_content = None
  /\ success = FALSE /\ error_message = None /\ build_logs = <<>>
  /\ retry_count = 0 /\ fixed_dockerfile_content = None
  /\ serial_no = 0
  /\ run_success = FALSE /\ output = None /\ exit_status = NoStatus
  /\ repair_calls = 0 /\ builds = 0 /\ runs = 0 /\ tags = {}
  /\ built_text = None /\ built_logs = <<>> /\ request = NoRequest
  /\ logfile = NoLogFile
  /\ outcome = "none" /\ recorded = 0
  /\ faults = 0 /\ deviated = FALSE

\* the locals of main before its first statement, and no pair begun
InitLocals ==
  /\ bibcode_dirs = <<>> /\ bi = 1 /\ vi = 1
  /\ dockerfile_content = None /\ base_version = None
  /\ updated_dockerfile_content = None
  /\ success = FALSE /\ error_message = None /\ build_logs = <<>>
  /\ retry_count = 0 /\ fixed_dockerfile_content = None
  /\ serial_no = 1
  /\ run_success = FALSE /\ output = None /\ exit_status = NoStatus
  /\ repair_calls = 0 /\ builds = 0 /\ runs = 0 /\ tags = {}
  /\ built_text = None /\ built_logs = <<>> /\ request = NoRequest
  /\ logfile = NoLogFile
  /\ outcome = "none" /\ recorded = 0
  /\ faults = 0 /\ deviated = FALSE

Init ==
  /\ all_dirs \in Catalogs
  /\ specific_bibcode \in SpecificChoices
  /\ csv \in CsvStates
  /\ csv0 = Len(csv.lines)
  /\ pc = "start"
  /\ InitLocals
  /\ fn_in = <<>> /\ fn_out = <<>>

\* the environment leaves the nominal path in at most MaxFaults pairs;
\* deviated says whether the current pair is one of them
Account(before, nominal) ==
  /\ nominal \/ before \/ faults < MaxFaults
  /\ deviated' = (before \/ ~nominal)
  /\ faults' = IF ~nominal /\ ~before THEN faults + 1 ELSE faults

\* main, lines 314-321
LoadCatalog ==
  /\ pc = "start"
  /\ bibcode_dirs' = load_bibcode_directories(all_dirs, specific_bibcode)
  /\ pc' = IF specific_bibcode # None /\ bibcode_dirs' = <<>> THEN "done" ELSE "artifact"
  /\ UNCHANGED <<ran, inputs, csv, bi, vi, dockerfile_content, base_version,
                 updated_dockerfile_content, success, error_message, build_logs,
                 retry_count, fixed_dockerfile_content, serial_no, pair, faults,
                 deviated>>

\* every Dockerfile that can be read is taken, a base version or not
UsableAnyReadable(d) == d.state = "readable"
\* main, lines 327-345: the Dockerfile is there, can be read and names a base
\* version; otherwise the artifact is skipped
Usable(d) == d.state = "readable" /\ extract_base_version(d.text) # None

\* main, lines 323-345: the head of the artifact loop
NextArtifact ==
  /\ pc = "artifact" /\ bi <= Len(bibcode_dirs)
  /\ \E d \in DockerfileStates(bibcode) :
     LET usable == Usable(d)
     IN IF usable
        THEN /\ dockerfile_content' = d.text
             /\ base_version' = extract_base_version(d.text)
             /\ vi' = 1 /\ pc' = "version" /\ bi' = bi
        ELSE /\ dockerfile_content' =
                  (IF d.state = "readable" THEN d.text ELSE dockerfile_content)
             /\ base_version' =
                  (IF d.state = "readable" THEN None ELSE base_version)
             /\ bi' = bi + 1
             /\ UNCHANGED <<vi, pc>>
  /\ UNCHANGED <<ran, inputs, csv, bibcode_dirs, updated_dockerfile_content, success,
                 error_message, build_logs, retry_count, fixed_dockerfile_content,
                 serial_no, pair, faults, deviated>>

\* main: the artifact loop is exhausted
FinishRun ==
  /\ pc = "artifact" /\ bi > Len(bibcode_dirs)
  /\ pc' = "done"
  /\ UNCHANGED <<ran, inputs, csv, bibcode_dirs, bi, vi, dockerfile_content,
                 base_version, updated_dockerfile_content, success, error_message,
                 build_logs, retry_count, fixed_dockerfile_content, serial_no, pair,
                 faults, deviated>>

\* main: the version loop is exhausted, on to the next artifact
EndArtifact ==
  /\ pc = "version" /\ vi > Len(UBUNTU_VERSIONS)
  /\ bi' = bi + 1 /\ pc' = "artifact"
  /\ UNCHANGED <<ran, inputs, csv, bibcode_dirs, vi, dockerfile_content, base_version,
                 updated_dockerfile_content, success, error_message, build_logs,
                 retry_count, fixed_dockerfile_content, serial_no, pair, faults,
                 deviated>>

\* the retry loop without its bound
LoopCondUnbounded == ~success
\* the retry loop going on after a build that succeeded
LoopCondIgnoresSuccess == retry_count < max_retries
\* the retry loop with its bound off by one
LoopCondInclusive == ~success /\ retry_count <= max_retries
\* the condition of the retry loop, line 395
LoopCond == ~success /\ retry_count < max_retries

\* the arguments main gives fix_dockerfile_with_llm, lines 400-403
RepairDockerfile == updated_dockerfile_content
RepairErrorLogs == Join(LastN(build_logs, LogTail))
\* a tag of its own for every repaired variant
RebuildTagPerAttempt == image_tag \o <<"_", Digits[retry_count + 2]>>
\* the tag main gives build_image for a repaired variant, line 425
RebuildTag == image_tag
\* the run given the name of the artifact alone
RunTagLatest == sanitize_image_tag(bibcode)
\* the tag main gives run_container, line 451
RunTag == image_tag

\* main, lines 347-393: derive and write the variant, build it, keep its log
StartPair ==
  /\ pc = "version" /\ vi <= Len(UBUNTU_VERSIONS)
  /\ \E updated \in {update_dockerfile_content(dockerfile_content, ubuntu_version)} :
        /\ updated_dockerfile_content' = updated
        /\ \E written \in BOOLEAN, b \in BuildOutcomes, logged \in FileWrites :
             /\ Account(FALSE, written /\ b = BuildOk /\ logged)
             /\ IF Strip(updated) = <<>> \/ ~written
                THEN \* continue: the version is skipped
                     /\ b = BuildOk /\ logged
                     /\ vi' = vi + 1
                     /\ builds' = 0 /\ tags' = {} /\ built_text' = None
                     /\ built_logs' = <<>> /\ logfile' = NoLogFile /\ outcome' = "none"
                     /\ UNCHANGED <<pc, success, error_message, build_logs,
                                    retry_count>>
                ELSE LET r == build_image(b)
                     IN /\ success' = r.success
                        /\ error_message' = r.error_message
                        /\ build_logs' = r.build_logs
                        /\ logfile' = WriteLog(0, r.build_logs, logged)
                        /\ retry_count' = 0
                        /\ builds' = 1 /\ tags' = {image_tag}
                        /\ built_text' = updated /\ built_logs' = r.build_logs
                        /\ outcome' = IF r.success THEN "success"
                                      ELSE IF 0 < max_retries THEN "none"
                                      ELSE "exhausted"
                        /\ pc' = "loop" /\ vi' = vi
  /\ repair_calls' = 0 /\ runs' = 0 /\ request' = NoRequest /\ recorded' = 0
  \* locals of the previous iteration, assigned again before any read
  /\ fixed_dockerfile_content' = None
  /\ run_success' = FALSE /\ output' = None /\ exit_status' = NoStatus
  /\ UNCHANGED <<inputs, csv, bibcode_dirs, bi, dockerfile_content, base_version,
                 serial_no>>

\* main, lines 395-422: ask for a repair and write the repaired variant
Repair ==
  /\ pc = "loop" /\ LoopCond
  /\ \E resp \in RepairResponses, written \in FileWrites :
     \E r \in {fix_dockerfile_with_llm(resp)} :
       LET fixed == r.value
       IN /\ request' = [dockerfile |-> RepairDockerfile,
                         error_logs |-> RepairErrorLogs]
          /\ repair_calls' = repair_calls + 1
          /\ fixed_dockerfile_content' =
               (IF r.raised THEN fixed_dockerfile_content ELSE fixed)
          /\ logfile' = NoLogFile
          /\ IF r.raised
             THEN \* nothing in main catches it
                  /\ written
                  /\ pc' = "crashed" /\ outcome' = outcome
             ELSE IF fixed = None \/ fixed = <<>>
             THEN /\ written
                  /\ pc' = "record" /\ outcome' = "repair_unavailable"
             ELSE IF ~written
             THEN /\ pc' = "record" /\ outcome' = "persist_failed"
             ELSE /\ pc' = "rebuild" /\ outcome' = outcome
  /\ UNCHANGED <<ran, inputs, csv, bibcode_dirs, bi, vi, dockerfile_content,
                 base_version, updated_dockerfile_content, success, error_message,
                 build_logs, retry_count, serial_no, builds, runs, tags, built_text,
                 built_logs, recorded, faults, deviated>>

\* main, lines 424-447: build the repaired variant, keep its log, count
Rebuild ==
  /\ pc = "rebuild"
  /\ \E b \in BuildOutcomes, logged \in FileWrites :
       LET r == build_image(b)
       IN /\ success' = r.success
          /\ error_message' = r.error_message
          /\ build_logs' = r.build_logs
          /\ logfile' = WriteLog(retry_count + 1, r.build_logs, logged)
          /\ builds' = builds + 1 /\ tags' = tags \cup {RebuildTag}
          /\ built_text' = fixed_dockerfile_content /\ built_logs' = r.build_logs
          /\ retry_count' = retry_count + 1
          /\ request' = NoRequest
          /\ outcome' = IF r.success THEN "success"
                        ELSE IF retry_count + 1 < max_retries THEN "none"
                        ELSE "exhausted"
  /\ pc' = "loop"
  /\ UNCHANGED <<ran, inputs, csv, bibcode_dirs, bi, vi, dockerfile_content,
                 base_version, updated_dockerfile_content,
                 fixed_dockerfile_content, serial_no, repair_calls, runs,
                 recorded, faults, deviated>>

\* the rows main builds, lines 456-466, 475-485 and 492-502
Row(passed, failed, pct, error, note) ==
  [kind |-> "row", sno |-> serial_no, bibcode |-> bibcode, base |-> base_version,
   version |-> ubuntu_version, passed |-> passed, failed |-> failed, pct |-> pct,
   error |-> error, note |-> note]
\* the success row naming the base version as the version built
SuccessDataBaseVersion(text) ==
  LET p == parse_test_results(text)
  IN [Row(p.passed_cases, p.failed_cases, p.pass_percentage, <<>>, <<>>)
        EXCEPT !.version = base_version]
\* the success row carrying the number of repairs it took
SuccessDataWithNote(text) ==
  LET p == parse_test_results(text)
  IN Row(p.passed_cases, p.failed_cases, p.pass_percentage, <<>>,
         IF retry_count > 0 THEN RetryNote(retry_count) ELSE <<>>)
SuccessData(text) ==
  LET p == parse_test_results(text)
  IN Row(p.passed_cases, p.failed_cases, p.pass_percentage, <<>>, <<>>)
\* the row of a failed run without the error text
RunFailureDataNoError(text) == Row(0, 0, Zero, <<>>, <<>>)
RunFailureData(text) == Row(0, 0, Zero, text, <<>>)
\* the failure row with the counts of a run that printed no marker
BuildFailureDataImplicitPass ==
  Row(1, 0, Frac(100, 1), DropLastN(error_message, ErrCut), RetryNote(retry_count))
BuildFailureData == Row(0, 0, Zero, DropLastN(error_message, ErrCut),
                        RetryNote(retry_count))

\* the row is written and the serial number is left as it was
RecordKeepSerial(data, written) ==
  IF written
  THEN /\ csv' = log_results(data, csv)
       /\ serial_no' = serial_no
       /\ recorded' = recorded + 1
       /\ vi' = vi + 1 /\ pc' = "version" /\ logfile' = NoLogFile
  ELSE /\ pc' = "crashed" /\ logfile' = NoLogFile
       /\ UNCHANGED <<csv, serial_no, recorded, vi>>

\* log_results(data, CSV_FILE); serial_no += 1, and on to the next version.
\* log_results catches nothing: when the write raises, main ends there.
Record(data, written) ==
  IF written
  THEN /\ csv' = log_results(data, csv)
       /\ serial_no' = serial_no + 1
       /\ recorded' = recorded + 1
       /\ vi' = vi + 1 /\ pc' = "version" /\ logfile' = NoLogFile
  ELSE /\ pc' = "crashed" /\ logfile' = NoLogFile
       /\ UNCHANGED <<csv, serial_no, recorded, vi>>

AtRecord == pc = "record" \/ (pc = "loop" /\ ~LoopCond)

\* main, lines 449-487: run the container, parse its output, write the row
RunAndRecord ==
  /\ AtRecord /\ success
  /\ \E ro \in RunOutcomes, written \in BOOLEAN :
       LET r == run_container(ro)
       IN /\ Account(deviated, ro = RunOk /\ written)
          /\ runs' = runs + 1 /\ tags' = tags \cup {RunTag}
          /\ run_success' = r.run_success /\ output' = r.output
          /\ exit_status' = r.exit_status
          /\ Record(IF r.run_success THEN SuccessData(r.output)
                    ELSE RunFailureData(r.output), written)
  /\ UNCHANGED <<inputs, bibcode_dirs, bi, dockerfile_content, base_version,
                 updated_dockerfile_content, success, error_message, build_logs,
                 retry_count, fixed_dockerfile_content, repair_calls, builds,
                 built_text, built_logs, request, outcome>>

\* main, lines 488-504: the build never succeeded, write the failure row
RecordFailure ==
  /\ AtRecord /\ ~success
  /\ \E written \in BOOLEAN : Record(BuildFailureData, written)
  /\ UNCHANGED <<ran, inputs, bibcode_dirs, bi, dockerfile_content, base_version,
                 updated_dockerfile_content, success, error_message, build_logs,
                 retry_count, fixed_dockerfile_content, repair_calls, builds, runs,
                 tags, built_text, built_logs, request, outcome, faults, deviated>>

Next ==
  \/ LoadCatalog
  \/ NextArtifact
  \/ FinishRun
  \/ StartPair
  \/ Repair
  \/ Rebuild
  \/ RunAndRecord
  \/ RecordFailure
  \/ EndArtifact

Spec == Init /\ [][Next]_vars

\* main is one sequential thread: as long as every call it makes returns,
\* it takes its next step
SpecLive == Spec /\ WF_vars(Next)

(***************************************************************************)
(* parse_test_results on its own: every run output of at most MaxLogLen    *)
(* tokens.                                                                 *)
(***************************************************************************)
\* main is not running
Idle ==
  /\ all_dirs = <<>> /\ specific_bibcode = None
  /\ csv = [exists |-> FALSE, lines |-> <<>>] /\ csv0 = 0
  /\ pc = "idle"
  /\ InitLocals

LogTokens == {"Tests Passed:", "Tests Failed:", " ", "0", "1", "3", "x"}
ParseInputs == UNION { [1..n -> LogTokens] : n \in 0..MaxLogLen }

InitParse == Idle /\ fn_in \in ParseInputs /\ fn_out = <<>>

ApplyParse ==
  /\ pc = "idle" /\ fn_out = <<>>
  /\ fn_out' = <<parse_test_results(fn_in)>>
  /\ UNCHANGED <<ran, all_dirs, specific_bibcode, csv0, fn_in, csv, prog, pair, faults,
                 deviated>>

SpecParse == InitParse /\ [][ApplyParse]_vars

(***************************************************************************)
(* fix_dockerfile_with_llm on its own: every kind of answer of the service *)
(* and every generated text of at most MaxFixLen tokens.                   *)
(***************************************************************************)
FixTokens == {"Fixed Dockerfile:", "Note:", "Note that", " ", "F"}
FixTexts == UNION { [1..n -> FixTokens] : n \in 0..MaxFixLen }
ResponseKinds == {"post_raises", "http_error", "bad_json", "error_field", "generated"}
FixInputs == [kind : ResponseKinds, text : FixTexts]

InitFix == Idle /\ fn_in \in FixInputs /\ fn_out = <<>>

ApplyFix ==
  /\ pc = "idle" /\ fn_out = <<>>
  /\ fn_out' = <<fix_dockerfile_with_llm(fn_in)>>
  /\ UNCHANGED <<ran, all_dirs, specific_bibcode, csv0, fn_in, csv, prog, pair, faults,
                 deviated>>

SpecFix == InitFix /\ [][ApplyFix]_vars

(***************************************************************************)
(* The image tag on its own: every artifact id of at most MaxIdLen         *)
(* characters with every version of the matrix.                            *)
(***************************************************************************)
IdChars == {"A", "b", "1", "_", ".", "-", " "}
TagIds == UNION { [1..n -> IdChars] : n \in 0..MaxIdLen }
TagInputs ==
  [bibcode : TagIds, version : {UBUNTU_VERSIONS[i] : i \in 1..Len(UBUNTU_VERSIONS)}]

InitTag == Idle /\ fn_in \in TagInputs /\ fn_out = <<>>

ApplyTag ==
  /\ pc = "idle" /\ fn_out = <<>>
  /\ fn_out' = <<ImageTag(fn_in.bibcode, fn_in.version)>>
  /\ UNCHANGED <<ran, all_dirs, specific_bibcode, csv0, fn_in, csv, prog, pair,
                 faults, deviated>>

SpecTag == InitTag /\ [][ApplyTag]_vars

(***************************************************************************)
(* log_results on its own: call after call on a results.csv that is not    *)
(* there, is there and empty, or holds lines already.                      *)
(***************************************************************************)
LogRows ==
  { OldRow,
    [OldRow EXCEPT !.sno = 2, !.passed = 0, !.pct = Zero, !.error = <<"e">>],
    [OldRow EXCEPT !.sno = 3, !.passed = 0, !.pct = Zero, !.note = RetryNote(0)] }
LogFiles ==
  CsvStates \cup { [exists |-> TRUE, lines |-> <<>>],
                   [exists |-> TRUE, lines |-> <<Header>>] }

InitLog ==
  /\ all_dirs = <<>> /\ specific_bibcode = None
  /\ csv \in LogFiles /\ csv0 = Len(csv.lines)
  /\ pc = "idle"
  /\ InitLocals
  /\ fn_in = <<>> /\ fn_out = <<>>

ApplyLog ==
  /\ pc = "idle" /\ Len(csv.lines) < MaxCsvLen
  /\ \E data \in LogRows : csv' = log_results(data, csv)
  /\ UNCHANGED <<ran, inputs, prog, pair, faults, deviated>>

SpecLog == InitLog /\ [][ApplyLog]_vars

(***************************************************************************)
(* run_container on its own: every way the docker calls can go and every   *)
(* container output of at most MaxLogLen tokens.                           *)
(***************************************************************************)
RunKinds == {"ran", "raise", "wait_raises", "logs_raise"}
RunTexts == UNION { [1..n -> {"Tests Passed:", "1", "x"}] : n \in 0..MaxLogLen }
RunInputs ==
  [kind : RunKinds, remove : BOOLEAN, logs : RunTexts, msg : {<<"e">>},
   status : {0, 1}]

InitRun == Idle /\ fn_in \in RunInputs /\ fn_out = <<>>

ApplyRun ==
  /\ pc = "idle" /\ fn_out = <<>>
  /\ fn_out' = <<run_container(fn_in)>>
  /\ UNCHANGED <<ran, all_dirs, specific_bibcode, csv0, fn_in, csv, prog, pair,
                 faults, deviated>>

SpecRun == InitRun /\ [][ApplyRun]_vars

(***************************************************************************)
(* The claims.                                                             *)
(***************************************************************************)
\* the pair that was being processed is over: its row is written, or main
\* ended on it
PairOver == pc \in {"version", "artifact", "done", "crashed"}
LastRow == RunRows[Len(RunRows)]
\* the pair's build never succeeded and its row is in the table
FailureRecorded == PairOver /\ ~success /\ recorded = 1 /\ outcome # "none"

\* C1: for every pair, whatever the builds and the repair service answer,
\* fix_dockerfile_with_llm is called at most max_retries times.
C1_RepairCallsBounded == repair_calls <= max_retries
C1_Witness == repair_calls = max_retries /\ outcome = "exhausted"

\* C2: every pair that reached a terminal state has exactly one row in the
\* table once it is over, and no two rows of the run are for the same pair.
C2_ExactlyOneRecord ==
  /\ (PairOver /\ outcome # "none") => recorded = 1
  /\ LET rows == RunRows
     IN \A i, j \in 1..Len(rows) :
          (rows[i].bibcode = rows[j].bibcode
             /\ rows[i].version = rows[j].version) => i = j

\* C3: the 'S. No.' values of the rows the run wrote are strictly increasing
\* in write order, across all artifacts and versions (so none is used twice).
C3_SerialStrictlyIncreasing ==
  LET rows == RunRows
  IN \A i, j \in 1..Len(rows) : i < j => rows[i].sno < rows[j].sno
C3_Witness ==
  /\ Len(RunRows) > Len(UBUNTU_VERSIONS)
  /\ RunRows[1].bibcode # LastRow.bibcode

\* C4: once the repair service gave no usable content, the next step of the
\* pair makes no repair call, no build and no run, and writes the failure
\* row (no cases, the retry note) and moves on.
C4_ShortCircuit ==
  [][(pc = "record" /\ outcome = "repair_unavailable") =>
       /\ repair_calls' = repair_calls /\ builds' = builds /\ runs' = 0
       /\ recorded' = 1 /\ pc' = "version"
       /\ Len(RunRows') = Len(RunRows) + 1
       /\ RunRows'[Len(RunRows')].note # <<>>
       /\ RunRows'[Len(RunRows')].passed = 0]_vars

\* C5: the note of the row written for a pair whose build never succeeded
\* states the number of repair-service calls made for the pair.
C5_NoteCountsRepairCalls ==
  FailureRecorded => LastRow.note = RetryNote(repair_calls)

\* C6: the error detail of the row written for a pair whose build never
\* succeeded is the error text of the last build of the pair, unchanged.
C6_ErrorIsLastBuildError ==
  FailureRecorded => LastRow.error = error_message

\* C7: every repair request carries the text of the Dockerfile most recently
\* built and the joined last LogTail lines of that build's log.
C7_RequestCarriesLastBuilt ==
  request # NoRequest =>
    /\ request.dockerfile = built_text
    /\ request.error_logs = Join(LastN(built_logs, LogTail))

\* C8: every build and the run of a pair are given one and the same image
\* tag.
C8_OneTagPerPair == Cardinality(tags) <= 1
C8_Witness == builds >= 2 /\ runs = 1 /\ Cardinality(tags) = 1

\* C9: every row written after a successful build (its note is empty) has
\* pass percentage = passed / (passed + failed) x 100 when passed + failed > 0
\* and 0 when passed + failed = 0.
C9_PassPercentage ==
  LET rows == RunRows
  IN \A i \in 1..Len(rows) :
       LET r == rows[i]
       IN r.note = <<>> =>
            /\ r.passed + r.failed > 0 =>
                 r.pct.num * (r.passed + r.failed) = 100 * r.passed * r.pct.den
            /\ r.passed + r.failed = 0 => r.pct.num = 0
C9_Witness ==
  /\ Len(RunRows) > 0 /\ success /\ runs = 1
  /\ LastRow.passed = 1 /\ LastRow.failed = 2 /\ LastRow.pct = [num |-> 100, den |-> 3]

\* 'Tests <m>: N' occurs at position i: the marker, any white space, a digit
MarkerAt(logs, m, i) ==
  /\ logs[i] = m
  /\ \E d \in (i + 1)..Len(logs) :
       IsDigit(logs[d]) /\ \A j \in (i + 1)..(d - 1) : logs[j] \in Whitespace
MarkerPresent(logs, m) == \E i \in 1..Len(logs) : MarkerAt(logs, m, i)
RECURSIVE Pow10(_)
Pow10(n) == IF n = 0 THEN 1 ELSE 10 * Pow10(n - 1)
RECURSIVE Decimal(_, _, _)
\* the number written by the digits logs[d..e]
Decimal(logs, d, e) ==
  IF d > e THEN 0 ELSE DigitVal(logs[d]) * Pow10(e - d) + Decimal(logs, d + 1, e)
\* the number N of the first occurrence of 'Tests <m>: N'
MarkerNumber(logs, m) ==
  LET i == CHOOSE k \in 1..Len(logs) :
             MarkerAt(logs, m, k) /\ \A j \in 1..(k - 1) : ~MarkerAt(logs, m, j)
      d == CHOOSE k \in (i + 1)..Len(logs) :
             IsDigit(logs[k]) /\ \A j \in (i + 1)..(k - 1) : ~IsDigit(logs[j])
      e == CHOOSE k \in d..Len(logs) :
             /\ \A j \in d..k : IsDigit(logs[j])
             /\ k = Len(logs) \/ ~IsDigit(logs[k + 1])
  IN Decimal(logs, d, e)

\* C10: parse_test_results takes each marker on its own: no 'Tests Passed: N'
\* gives passed = 1, no 'Tests Failed: N' gives failed = 0, a marker that is
\* there gives its number, and neither marker gives 1, 0 and 100 percent.
C10_ImplicitPassPerMarker ==
  fn_out # <<>> =>
    LET r == fn_out[1]
        P == "Tests Passed:"
        F == "Tests Failed:"
    IN /\ ~MarkerPresent(fn_in, P) => r.passed_cases = 1
       /\ ~MarkerPresent(fn_in, F) => r.failed_cases = 0
       /\ MarkerPresent(fn_in, P) => r.passed_cases = MarkerNumber(fn_in, P)
       /\ MarkerPresent(fn_in, F) => r.failed_cases = MarkerNumber(fn_in, F)
       /\ (~MarkerPresent(fn_in, P) /\ ~MarkerPresent(fn_in, F)) =>
            r.pass_percentage = [num |-> 100, den |-> 1]
C10_Witness ==
  /\ fn_out # <<>>
  /\ ~MarkerPresent(fn_in, "Tests Passed:") /\ MarkerPresent(fn_in, "Tests Failed:")
  /\ fn_out[1].passed_cases = 1 /\ fn_out[1].failed_cases = 13

\* the Dockerfile of the artifact is missing, unreadable or names no base
Skipped(id) ==
  \A d \in DockerfileStates(id) :
    d.state # "readable" \/ extract_base_version(d.text) = None
\* the directories of the listing that are passed over
SkippedIds == {id \in ArtifactIds : Skipped(id)}

\* C11: an artifact whose Dockerfile is missing, unreadable or without a base
\* version gets no build, no repair call and no row for any version; the
\* step that meets it only moves on to the next artifact of the catalog.
C11_SkippedArtifact ==
  /\ [](LET rows == RunRows
        IN /\ \A i \in 1..Len(rows) : rows[i].bibcode \notin SkippedIds
           /\ pc \in {"version", "loop", "rebuild", "record"} => bibcode \notin SkippedIds)
  /\ [][(pc = "artifact" /\ bi <= Len(bibcode_dirs) /\ bibcode \in SkippedIds) =>
          /\ bi' = bi + 1 /\ pc' = "artifact"
          /\ csv' = csv /\ serial_no' = serial_no
          /\ builds' = builds /\ repair_calls' = repair_calls /\ runs' = runs]_vars
C11_Witness ==
  /\ Len(bibcode_dirs) = 2 /\ bibcode_dirs[1] \in SkippedIds
  /\ bi = 2 /\ pc = "version" /\ recorded = 1
  /\ LastRow.bibcode = bibcode_dirs[2] /\ Len(RunRows) = 1

\* C12: no failure of a step of one pair ends the run: main never stops on
\* an error while a pair of the catalog x matrix is still to be processed.
C12_NoErrorAbortsRun ==
  pc = "crashed" => (bi = Len(bibcode_dirs) /\ vi = Len(UBUNTU_VERSIONS))

\* C13: fix_dockerfile_with_llm never raises to its caller, and a failed
\* request, a non-200 status, an 'error' field, a malformed body and an
\* empty generated text all make it return None (which main takes as
\* "no repair to be had").
C13_RepairClientNeverRaises ==
  fn_out # <<>> =>
    /\ ~fn_out[1].raised
    /\ (fn_in.kind # "generated" \/ \A i \in 1..Len(fn_in.text) :
                                       fn_in.text[i] \in Whitespace)
         => fn_out[1].value = None
C13_Witness ==
  /\ fn_out # <<>> /\ fn_in.kind = "bad_json"
  /\ ~fn_out[1].raised /\ fn_out[1].value = None

\* the row of the pair is written and the pair's build had succeeded
RunRecorded == PairOver /\ recorded = 1 /\ success /\ runs = 1

\* C14: when the build of a pair succeeded (at once or after repairs) and the
\* container run fails, the row of the pair has the run's error text,
\* unchanged, as its error detail.
C14_RunErrorRecorded ==
  (RunRecorded /\ ~run_success) =>
    /\ output = RunRaises.msg
    /\ LastRow.error = output
C14_Witness ==
  /\ RunRecorded /\ ~run_success /\ builds >= 2
  /\ LastRow.error = RunRaises.msg

\* C15: the row written for a pair whose last build failed (retries used up
\* or no repair to be had) or whose container run failed has cases passed =
\* 0, cases failed = 0 and pass percentage = 0.
C15_FailureRowsZero ==
  (PairOver /\ recorded = 1 /\ (~success \/ ~run_success)) =>
    /\ LastRow.passed = 0 /\ LastRow.failed = 0
    /\ LastRow.pct = Zero
C15_Witness ==
  /\ PairOver /\ recorded = 1 /\ outcome = "exhausted"
  /\ LastRow.passed = 0 /\ LastRow.failed = 0 /\ LastRow.pct = Zero

\* C16: when the first build and every rebuild of a pair fail and every
\* repair call gives content, the pair makes repair call 1, ..., max_retries
\* in order, each followed by one build, and ends exhausted after exactly
\* max_retries calls and 1 + max_retries builds, with its failure row in the
\* table; a build that fails before max_retries leads to the next call.
C16_ExhaustedAfterMaxRetries ==
  /\ [](/\ pc = "loop" => (builds = retry_count + 1 /\ repair_calls = retry_count)
        /\ (PairOver /\ outcome = "exhausted") =>
             /\ repair_calls = max_retries /\ builds = 1 + max_retries
             /\ recorded = 1 /\ LastRow.note = RetryNote(max_retries))
  /\ [][(pc = "loop" /\ ~success /\ retry_count < max_retries) =>
          repair_calls' = repair_calls + 1]_vars

\* main is inside the retry loop of a pair or about to write its row
InPair == pc \in {"loop", "rebuild", "record"}

\* C17: once a build of a pair has succeeded, no step of the pair makes a
\* repair call or a build any more, and the terminal outcome a pair has
\* reached (success, exhausted, no repair to be had) is never replaced by
\* another one.
C17_SuccessAbsorbing ==
  [][/\ (InPair /\ success) =>
          (repair_calls' = repair_calls /\ builds' = builds)
     /\ (InPair /\ outcome # "none") => outcome' = outcome]_vars
C17_Witness ==
  /\ PairOver /\ outcome = "success" /\ recorded = 1
  /\ builds = 3 /\ repair_calls = 2 /\ retry_count = 2

\* the image tag of the pair main is on, or has just left
PairTag ==
  IF recorded = 1 THEN ImageTag(LastRow.bibcode, LastRow.version) ELSE image_tag

\* C18: the container of a pair is run once when the pair's last build
\* succeeded and never otherwise (retries used up, no repair to be had), and
\* the run is given the image tag of the pair.
C18_RunIffBuilt ==
  /\ runs <= 1
  /\ runs = 1 => (success /\ tags = {PairTag})
  /\ (PairOver /\ outcome # "none") => (runs = 1 <=> success)
  /\ outcome \in {"exhausted", "repair_unavailable", "persist_failed"} => runs = 0
C18_Witness ==
  /\ PairOver /\ recorded = 1 /\ outcome = "success"
  /\ runs = 1 /\ tags = {PairTag}

ThreePassed == <<"Tests Passed:", " ", "3", "\n">>

\* C19: when the first build of a pair failed, a repaired variant built and
\* the run succeeded, the row written for the pair names the pair's target
\* version, has the counts parsed from the run's output and an empty error
\* detail; for the output 'Tests Passed: 3' it has 3 passed, 0 failed,
\* 100 percent.
C19_RepairedSuccessRecord ==
  [][(pc = "loop" /\ success /\ builds >= 2 /\ run_success' /\ recorded' = 1) =>
       LET r == RunRows'[Len(RunRows')]
           p == parse_test_results(output')
       IN /\ r.bibcode = bibcode /\ r.version = ubuntu_version
          /\ r.passed = p.passed_cases /\ r.failed = p.failed_cases
          /\ r.pct = p.pass_percentage
          /\ r.error = <<>>
          /\ output' = ThreePassed =>
               (r.passed = 3 /\ r.failed = 0 /\ r.pct = [num |-> 100, den |-> 1])]_vars
C19_Witness ==
  /\ PairOver /\ recorded = 1 /\ builds >= 2 /\ success /\ run_success
  /\ output = ThreePassed
  /\ LastRow.passed = 3 /\ LastRow.failed = 0
  /\ LastRow.pct = [num |-> 100, den |-> 1] /\ LastRow.error = <<>>
  /\ LastRow.version # LastRow.base

\* C20: on every way out of run_container on which a container was created
\* (the run completed, wait() raised, logs() raised), the container has been
\* removed when run_container returns.
C20_ContainerRemoved ==
  (fn_out # <<>> /\ fn_in.kind # "raise") => fn_out[1].container = "removed"

\* C21: after every build (the original and each repaired variant, succeeded
\* or failed) the log file written for it is the attempt's own
\* (build_log_<version>.txt for the original, ..._fixed_<k>.txt for repaired
\* variant k) and holds the last min(LogTail, n) of the build's n log lines,
\* never more than LogTail; the repair request that follows joins the same
\* lines.  (A log file that cannot be written leaves no file; main goes on.)
C21_BoundedBuildLog ==
  /\ logfile # NoLogFile =>
       /\ pc = "loop"
       /\ logfile.name = LogFileName(builds - 1)
       /\ logfile.lines = LastN(built_logs, LogTail)
       /\ Len(logfile.lines) <= LogTail
       /\ Len(built_logs) <= LogTail => logfile.lines = built_logs
  /\ request # NoRequest =>
       request.error_logs = Join(LastN(built_logs, LogTail))
C21_Witness ==
  /\ logfile # NoLogFile /\ builds = 3 /\ ~success
  /\ logfile.name.fixed = 2
  /\ Len(built_logs) = LogTail + 1 /\ Len(logfile.lines) = LogTail
  /\ logfile.lines[1] = built_logs[2]

Alnum(c) == IsUpper(c) \/ IsLower(c) \/ IsDigit(c)
\* the tag is made of a name as long as the id, ':' and the version's digits
TagShape(id, version, tag) ==
  /\ Len(tag) = Len(id) + 1 + Len(version) - 1
  /\ tag[Len(id) + 1] = ":"
  /\ From(tag, Len(id) + 2) = SelectSeq(version, LAMBDA c : c # ".")

\* C22 as the spec states it: every character of the artifact id that is
\* not a letter or a digit becomes an underscore, and the result is
\* lower-cased.
C22_NonAlnumToUnderscore ==
  fn_out # <<>> =>
    /\ TagShape(fn_in.bibcode, fn_in.version, fn_out[1])
    /\ \A i \in 1..Len(fn_in.bibcode) :
         fn_out[1][i] = IF Alnum(fn_in.bibcode[i]) THEN ToLower(fn_in.bibcode[i])
                        ELSE "_"

\* C22 as the code has it: the image tag is a function of the artifact id
\* and the target version; letters and digits of the id are kept, lower-
\* cased, '_', '.' and '-' are kept as they are, every other character
\* becomes an underscore; then ':' and the version without its dots.
C22_SanitizedTag ==
  fn_out # <<>> =>
    /\ TagShape(fn_in.bibcode, fn_in.version, fn_out[1])
    /\ \A i \in 1..Len(fn_in.bibcode) :
         LET c == fn_in.bibcode[i]
         IN fn_out[1][i] = IF Alnum(c) THEN ToLower(c)
                           ELSE IF c \in {"_", ".", "-"} THEN c
                           ELSE "_"
C22_Witness ==
  /\ fn_out # <<>>
  /\ fn_in.bibcode = <<"A", ".", " ">> /\ fn_in.version = UBUNTU_VERSIONS[1]
  /\ fn_out[1] = <<"a", ".", "_", ":", "1", "4", "0", "4">>

\* the requested artifact id is a directory of the root
Present == \E i \in 1..Len(all_dirs) : all_dirs[i] = specific_bibcode

\* C23: when a specific artifact id is requested and is not a directory of
\* the root, the run processes nothing (no build, no repair call, no run,
\* results.csv untouched); when it is there, that artifact alone is
\* processed.
C23_SpecificArtifact ==
  /\ (specific_bibcode # None /\ ~Present) =>
       /\ pc \in {"start", "done"} /\ bibcode_dirs = <<>>
       /\ builds = 0 /\ repair_calls = 0 /\ runs = 0
       /\ csv \in CsvStates /\ Len(csv.lines) = csv0
  /\ (specific_bibcode # None /\ Present /\ pc # "start") =>
       /\ bibcode_dirs = <<specific_bibcode>>
       /\ LET rows == RunRows
          IN \A i \in 1..Len(rows) : rows[i].bibcode = specific_bibcode
C23_Witness ==
  /\ specific_bibcode = <<"z">> /\ Len(all_dirs) = 2 /\ all_dirs[2] = <<"a", "b">>
  /\ pc = "done" /\ bibcode_dirs = <<>> /\ builds = 0 /\ Len(csv.lines) = csv0

\* C24: results.csv is append-only with a header on first write: a call of
\* log_results writes the header exactly when the file is not there yet,
\* adds exactly one row at the end, and leaves every line that was there as
\* and where it was.
C24_AppendOnly ==
  [][csv' # csv =>
       LET new == Len(csv'.lines)
       IN /\ csv'.exists
          /\ SubSeq(csv'.lines, new - Len(csv.lines), new - 1) = csv.lines
          /\ csv'.lines[new].kind = "row"
          /\ IF csv.exists THEN new = Len(csv.lines) + 1
             ELSE new = 2 /\ csv'.lines[1] = Header]_vars
C24_Witness ==
  /\ csv0 = 0 /\ Len(csv.lines) = 3
  /\ csv.lines[1] = Header /\ csv.lines[2].kind = "row" /\ csv.lines[3].kind = "row"
  /\ csv.lines[2] # csv.lines[3]

StopMarkers == {"Note:", "Note that"}
\* what follows the first 'Fixed Dockerfile:' of the text, the whole text
\* when there is none
AfterDelimiter(text) ==
  IF \E i \in 1..Len(text) : text[i] = "Fixed Dockerfile:"
  THEN LET i == CHOOSE k \in 1..Len(text) :
                  /\ text[k] = "Fixed Dockerfile:"
                  /\ \A j \in 1..(k - 1) : text[j] # "Fixed Dockerfile:"
       IN SubSeq(text, i + 1, Len(text))
  ELSE text
\* the part of the text before its first stop marker
BeforeMarkers(text) ==
  LET n == CHOOSE k \in 0..Len(text) :
             /\ \A j \in 1..k : text[j] \notin StopMarkers
             /\ k = Len(text) \/ text[k + 1] \in StopMarkers
  IN SubSeq(text, 1, n)

\* C25: the text fix_dockerfile_with_llm returns is the generated text
\* without everything up to and including its first 'Fixed Dockerfile:'
\* (when there is one), cut at the first stop marker and stripped: it holds
\* neither 'Note:' nor 'Note that' and nothing from before the delimiter.
C25_ExtractedText ==
  (fn_out # <<>> /\ fn_in.kind = "generated" /\ fn_out[1].value # None) =>
    LET v == fn_out[1].value
    IN /\ \A i \in 1..Len(v) : v[i] \notin StopMarkers
       /\ v = Strip(BeforeMarkers(Strip(AfterDelimiter(fn_in.text))))
C25_Witness ==
  /\ fn_out # <<>> /\ fn_in.kind = "generated"
  /\ fn_in.text = <<"Note:", "Fixed Dockerfile:", "F", "Note that">>
  /\ fn_out[1].value = <<"F">>

\* C26: a variant that could not be written is never built.  A version
\* whose original variant cannot be written is skipped with no build, no
\* repair call and no row; when repaired variant k cannot be written there
\* is no build of it and no further repair call, and the pair ends with a
\* failure row.
C26_UnwrittenVariantNotBuilt ==
  /\ [](outcome = "persist_failed" =>
          /\ ~success /\ runs = 0 /\ builds = repair_calls
          /\ PairOver => (recorded = 1 /\ LastRow.note = RetryNote(retry_count)))
  /\ [][/\ (pc = "version" /\ pc' = "version") =>
             /\ vi' = vi + 1 /\ csv' = csv /\ serial_no' = serial_no
             /\ builds' = 0 /\ repair_calls' = 0 /\ runs' = 0 /\ recorded' = 0
        /\ (InPair /\ outcome = "persist_failed") =>
             (builds' = builds /\ repair_calls' = repair_calls)]_vars

\* main has returned, or has been ended by an exception
Finished == pc \in {"done", "crashed"}

\* C27: processing terminates: as long as every build, repair and run call
\* returns, no pair makes more than 1 + max_retries builds, and the run over
\* the catalog and the version matrix eventually finishes.
C27_Terminates ==
  /\ [](builds <= 1 + max_retries /\ retry_count <= max_retries)
  /\ <>Finished
C27_Witness ==
  /\ pc = "done" /\ Len(RunRows) = Len(UBUNTU_VERSIONS)
  /\ builds = 1 + max_retries /\ outcome = "exhausted" /\ recorded = 1

\* C28: the serial numbers of a run are gap-free from 1: the i-th row the
\* run has written carries number i, and the counter is always one more than
\* the number of rows written, so that skipped artifacts and skipped
\* versions use no number.
C28_GapFreeSerial ==
  LET rows == RunRows
  IN /\ \A i \in 1..Len(rows) : rows[i].sno = i
     /\ serial_no = Len(rows) + 1
\* the first artifact of the catalog and the first version were both passed
\* over, and two rows were written after them
C28_Witness ==
  LET rows == RunRows
  IN /\ Len(rows) >= 2 /\ rows[1].sno = 1 /\ rows[2].sno = 2
     /\ Len(all_dirs) >= 2 /\ specific_bibcode = None
     /\ rows[1].bibcode # all_dirs[1]
     /\ rows[1].version # UBUNTU_VERSIONS[1]

\* C29: two different (artifact, version) pairs of one run never get the
\* same image tag: the rows of a run stand for the pairs it built, and no
\* two of them name pairs whose tags are equal.
C29_DistinctTags ==
  LET rows == RunRows
  IN \A i, j \in 1..Len(rows) :
       i # j => ImageTag(rows[i].bibcode, rows[i].version)
                  # ImageTag(rows[j].bibcode, rows[j].version)

\* C30: every row of the run with a repair note has pass percentage 0; the
\* row of a pair whose build succeeded after one or more repairs has an
\* empty note; so categorize_reproducibility gives no row of the run the
\* class 'Reproducible with Effort'.
C30_NoEffortClass ==
  LET rows == RunRows
      class == categorize_reproducibility(rows)
  IN /\ \A i \in 1..Len(rows) :
          /\ rows[i].note # <<>> => rows[i].pct = Zero
          /\ class[i] \in {"Automatic Reproducible", "Non-Reproducible"}
     /\ (PairOver /\ success /\ retry_count >= 1 /\ recorded = 1) =>
          rows[Len(rows)].note = <<>>
\* a pair built at its second or a later attempt, its tests passed, and its
\* row is read as reproducible without effort
C30_Witness ==
  /\ PairOver /\ success /\ retry_count >= 1 /\ recorded = 1 /\ run_success
  /\ LastRow.pct # Zero /\ LastRow.note = <<>>
  /\ categorize_row(LastRow) = "Automatic Reproducible"

\* the output names neither a passed nor a failed count
NoMarkers(text) ==
  \A i \in 1..Len(text) : text[i] \notin {"Tests Passed:", "Tests Failed:"}

\* C31: the row of a run is a failure row only when a docker call of
\* run_container raised; whatever status the container exited with, a run
\* whose calls returned counts as successful, and when its output has no
\* test marker the row says 1 passed, 0 failed, 100 percent, no error.
C31_ExitStatusIgnored ==
  [][(AtRecord /\ success /\ recorded' = recorded + 1) =>
       LET r == RunRows'[Len(RunRows')]
       IN /\ exit_status' # NoStatus => run_success'
          /\ ~run_success' =>
               /\ exit_status' = NoStatus
               /\ r.passed = 0 /\ r.failed = 0 /\ r.pct = Zero /\ r.error = output'
          /\ (run_success' /\ NoMarkers(output')) =>
               /\ r.passed = 1 /\ r.failed = 0 /\ r.pct = Frac(100, 1)
               /\ r.error = <<>> /\ r.note = <<>>]_vars
\* the container exited with status 1 and printed no marker, and its row
\* reads as one test passed
C31_Witness ==
  /\ PairOver /\ recorded = 1 /\ success /\ run_success
  /\ exit_status = 1 /\ NoMarkers(output)
  /\ LastRow.passed = 1 /\ LastRow.failed = 0
  /\ LastRow.pct = [num |-> 100, den |-> 1] /\ LastRow.error = <<>>

====
